---- MODULE Spec2Model ----
(***************************************************************************)
(* Model of the IT-cortex neuron firing-rate aggregator (it_neuron_vrep.py) *)
(* and of the Tamura dual-phase dynamics engine                            *)
(* (Dynamics/tamura_dynamic_profile.py).                                   *)
(*                                                                         *)
(* Numbers are fixed point:                                                *)
(*   times           microseconds            (0.005 s = 5000)              *)
(*   selectivities   multiples of 1/SelUnit  (0.5 = SelUnit \div 2)        *)
(*   modifiers       multiples of 1/ModUnit  (1 = ModUnit)                 *)
(*   rates           multiples of 1/RateUnit spikes/s                      *)
(* An optional object (Python None or an instance) is a sequence of        *)
(* length 0 or 1.                                                          *)
(***************************************************************************)
EXTENDS Integers, Sequences, FiniteSets, TLC

VARIABLES
    neuron,     \* the Neuron instance: <<>> before/without construction, else <<record>>
    dynamics,   \* the TamuraDynamics instance (Neuron.dynamics or a standalone engine)
    args,       \* arguments of the last Neuron(...) call: <<>> or <<record>>
    raised,     \* message of the exception raised by Neuron.__init__, "" when none
    scene,      \* ground_truth_list of the last firing_rate call
    isolated,   \* isolated_rates of the last _get_static_firing_rate call
    rate,       \* value returned by the last firing_rate call
    calls,      \* number of firing_rate calls made on the neuron
    engine_args, \* arguments of the TamuraDynamics(...) call: <<>> or <<record>>
    hist,       \* <<early_rates, late_rates>> of every get_dynamic_rates call, in order
    stamp,      \* stamp[i]: number of the get_dynamic_rates call that last wrote slot i
    probe,      \* what the last get_dynamic_rates call read and returned
    applied,    \* the last direct call of a module-level function or static method
    population  \* several TamuraDynamics instances side by side, each with its calls

vars == <<neuron, dynamics, args, raised, scene, isolated, rate, calls, engine_args,
          hist, stamp, probe, applied, population>>

neuronVars == <<neuron, args, raised, scene, isolated, rate, calls>>

None == <<>>

Some(x) == <<x>>

Min(a, b) == IF a <= b THEN a ELSE b

Max(a, b) == IF a >= b THEN a ELSE b

RECURSIVE SumSeq(_)
SumSeq(s) == IF s = <<>> THEN 0 ELSE Head(s) + SumSeq(Tail(s))

(***************************************************************************)
(* Bounds of the model.                                                    *)
(***************************************************************************)
MaxCalls == 2

MaxSteps == 24

MaxChanges == 2

(***************************************************************************)
(* Fixed-point units.                                                      *)
(***************************************************************************)
SelUnit == 4

ModUnit == 2

RateUnit == SelUnit * ModUnit * ModUnit * ModUnit

ExpUnit == 100

(***************************************************************************)
(* str.lower() on the profile names that are passed in.                    *)
(***************************************************************************)
Lower(s) ==
    CASE s = "Kurtosis" -> "kurtosis"
      [] s = "Tamura" -> "tamura"
      [] s = "Gaussian" -> "gaussian"
      [] s = "Lognormal" -> "lognormal"
      [] s = "TwoInputSigmoid" -> "twoinputsigmoid"
      [] s = "Average" -> "average"
      [] OTHER -> s

(***************************************************************************)
(* Numeric helpers of the fixed-point arithmetic.                          *)
(***************************************************************************)

\* np.rint(a / b): the quotient rounded to the nearest integer, ties to even.
Rint(a, b) ==
    LET q == a \div b
        r == a % b
    IN  IF 2 * r < b THEN q
        ELSE IF 2 * r > b THEN q + 1
        ELSE IF q % 2 = 0 THEN q ELSE q + 1

\* np.exp(-static_rates / tau) in units of 1/ExpUnit: the rational approximation
\* 1 / (1 + x + x^2/2 + x^3/6) of exp(-x), x in hundredths, 0 from x = 10 on.
ExpNeg(static_rates, tau) ==
    LET x == (100 * static_rates) \div tau
    IN  IF x >= 1000 THEN 0
        ELSE (6000000 * ExpUnit)
                 \div (6000000 + 60000 * x + 300 * x * x + x * x * x)

\* np.dot of a matrix (sequence of rows) and a vector
MatVec(m, x) == [i \in 1..Len(m) |-> SumSeq([j \in 1..Len(x) |-> m[i][j] * x[j]])]

\* np.dot of two vectors
Dot(c, x) == SumSeq([j \in 1..Len(x) |-> c[j] * x[j]])

\* integrate without the feedback term np.dot(a, x)
integrate_no_feedback(dt, a, b, c, x, u) ==
    LET dxdt == [i \in 1..Len(x) |-> b.num[i] * u]
        x1   == [i \in 1..Len(x) |-> x[i] + (dxdt[i] * dt) \div a.den]
        y    == Dot(c.num, x1) \div c.den
    IN  [x |-> x1, y |-> y]

\* integrate with each state component updated from the components already
\* updated in the same step
integrate_updated_first(dt, a, b, c, x, u) ==
    LET x1_1 == x[1] + ((a.num[1][1] * x[1] + b.num[1] * u) * dt) \div a.den
        x1 == IF Len(x) = 1 THEN <<x1_1>>
              ELSE <<x1_1,
                     x[2] + ((a.num[2][1] * x1_1 + a.num[2][2] * x[2] + b.num[2] * u) * dt)
                                \div a.den>>
        y  == Dot(c.num, x1) \div c.den
    IN  [x |-> x1, y |-> y]

(***************************************************************************)
(* integrate(dt, a, b, c, x, u): one explicit Euler step.                  *)
(* a and b are the template matrices scaled by 1/tau, kept as the pair     *)
(* (template, tau); c is a gain vector kept as (numerators, denominator).  *)
(***************************************************************************)
integrate(dt, a, b, c, x, u) ==
    LET ax   == MatVec(a.num, x)
        dxdt == [i \in 1..Len(x) |-> ax[i] + b.num[i] * u]
        x1   == [i \in 1..Len(x) |-> x[i] + (dxdt[i] * dt) \div a.den]
        y    == Dot(c.num, x1) \div c.den
    IN  [x |-> x1, y |-> y]

(***************************************************************************)
(* class TamuraDynamics                                                    *)
(***************************************************************************)

\* get_early_object_selectivities without the np.minimum(., 1)
get_early_object_selectivities_doubled(late_obj_dict) ==
    [key \in DOMAIN late_obj_dict |-> late_obj_dict[key] * 2]

\* get_early_object_selectivities: every value doubled and capped at 1
get_early_object_selectivities(late_obj_dict) ==
    [key \in DOMAIN late_obj_dict |-> Min(late_obj_dict[key] * 2, SelUnit)]

\* the number of slots of the history buffers, max_latency/dt + 1 +
\* late_additional_latency, truncated to an integer by np.zeros
latency_steps_of(dt, max_latency, late_additional_latency) ==
    (max_latency \div dt) + 1 + late_additional_latency

\* TamuraDynamics.__init__; draw holds the values of the np.random calls
TamuraDynamics(dt, obj_dict, max_latency, draw) ==
    LET min_latencies == 90000 + draw.rand
        late_additional_latency == 10
        latency_steps == latency_steps_of(dt, max_latency, late_additional_latency)
    IN  [ dt |-> dt,
          type |-> "Tamura_dynamic_profile",
          early_obj_pref |-> get_early_object_selectivities(obj_dict),
          min_latencies |-> min_latencies,
          max_latencies |-> Min(max_latency, min_latencies + draw.gamma),
          tau_latencies |-> draw.tau,
          late_additional_latency |-> late_additional_latency,
          early_memory |-> [i \in 0..(latency_steps - 1) |-> 0],
          late_memory |-> [i \in 0..(latency_steps - 1) |-> 0],
          memory_index |-> 0,
          early_tau |-> Max(5000, draw.early_tau),
          late_tau |-> draw.late_tau,
          early_A |-> << <<-1, 0>>, <<1, -1>> >>,
          early_B |-> <<1, 0>>,
          late_A |-> << <<-1>> >>,
          late_B |-> <<1>>,
          early_C |-> [num |-> <<150, -150>>, den |-> 39],
          late_C |-> [num |-> <<1>>, den |-> 1],
          early_x |-> <<0, 0>>,
          late_x |-> <<0>> ]

\* self.early_memory.shape[1]
memory_length(self) == Cardinality(DOMAIN self.early_memory)

\* _get_index counting the delay from the slot after the one just written
get_index_one_more(self, latency_steps) ==
    LET index == self.memory_index - Min(latency_steps + 1, memory_length(self))
    IN  IF index < 0 THEN index + memory_length(self) ELSE index

\* _get_index
get_index(self, latency_steps) ==
    LET index == self.memory_index - Min(latency_steps, memory_length(self))
    IN  IF index < 0 THEN index + memory_length(self) ELSE index

\* _get_latencies
get_latencies(self, static_rates) ==
    self.min_latencies
        + ((self.max_latencies - self.min_latencies)
               * ExpNeg(static_rates, self.tau_latencies)) \div ExpUnit

\* _get_lagged_rates
get_lagged_rates(self, latencies) ==
    LET latency_steps == Rint(latencies, self.dt)
        early_indices == get_index(self, latency_steps)
        late_indices  == get_index(self, latency_steps + self.late_additional_latency)
    IN  [ early_u |-> self.early_memory[early_indices],
          late_u |-> self.late_memory[late_indices],
          latency_steps |-> latency_steps,
          early_indices |-> early_indices,
          late_indices |-> late_indices ]

\* _step_dynamics with the sum of both outputs clipped at 0
step_dynamics_clip_sum(self, early_u, late_u) ==
    LET early_a == [num |-> self.early_A, den |-> self.early_tau]
        early_b == [num |-> self.early_B, den |-> self.early_tau]
        early   == integrate(self.dt, early_a, early_b, self.early_C, self.early_x, early_u)
        late_a  == [num |-> self.late_A, den |-> self.late_tau]
        late_b  == [num |-> self.late_B, den |-> self.late_tau]
        late    == integrate(self.dt, late_a, late_b, self.late_C, self.late_x, late_u)
    IN  [ early_x |-> early.x, late_x |-> late.x,
          early_y |-> early.y, late_y |-> late.y,
          y |-> Max(0, early.y + late.y) ]

\* _step_dynamics
step_dynamics(self, early_u, late_u) ==
    LET early_a == [num |-> self.early_A, den |-> self.early_tau]
        early_b == [num |-> self.early_B, den |-> self.early_tau]
        early   == integrate(self.dt, early_a, early_b, self.early_C, self.early_x, early_u)
        late_a  == [num |-> self.late_A, den |-> self.late_tau]
        late_b  == [num |-> self.late_B, den |-> self.late_tau]
        late    == integrate(self.dt, late_a, late_b, self.late_C, self.late_x, late_u)
    IN  [ early_x |-> early.x, late_x |-> late.x,
          early_y |-> early.y, late_y |-> late.y,
          y |-> Max(0, early.y) + late.y ]

\* the cursor advanced without the wrap to 0
advance_no_wrap(self) == self.memory_index + 1

\* the cursor after `self.memory_index += 1` and the wrap to 0
advance(self) ==
    IF self.memory_index + 1 = memory_length(self) THEN 0 ELSE self.memory_index + 1

\* get_dynamic_rates with the cursor advanced before the delayed reads
get_dynamic_rates_advance_first(self, early_rates, late_rates) ==
    LET written == [self EXCEPT !.early_memory[self.memory_index] = early_rates,
                                !.late_memory[self.memory_index] = late_rates]
        latencies == get_latencies(written, early_rates)
        moved == [written EXCEPT !.memory_index = advance(written)]
        lagged == get_lagged_rates(moved, latencies)
        out == step_dynamics(moved, lagged.early_u, lagged.late_u)
    IN  [ self |-> [moved EXCEPT !.early_x = out.early_x, !.late_x = out.late_x],
          y |-> out.y,
          out |-> out,
          latencies |-> latencies,
          lagged |-> lagged ]

\* get_dynamic_rates that clears both buffers and the phase state whenever
\* the cursor wraps to 0
get_dynamic_rates_reset_on_wrap(self, early_rates, late_rates) ==
    LET written == [self EXCEPT !.early_memory[self.memory_index] = early_rates,
                                !.late_memory[self.memory_index] = late_rates]
        latencies == get_latencies(written, early_rates)
        lagged == get_lagged_rates(written, latencies)
        moved == [written EXCEPT !.memory_index = advance(written)]
        out == step_dynamics(moved, lagged.early_u, lagged.late_u)
        stepped == [moved EXCEPT !.early_x = out.early_x, !.late_x = out.late_x]
    IN  [ self |-> IF moved.memory_index # 0 THEN stepped
                   ELSE [stepped EXCEPT
                            !.early_memory = [i \in DOMAIN self.early_memory |-> 0],
                            !.late_memory = [i \in DOMAIN self.late_memory |-> 0],
                            !.early_x = <<0, 0>>,
                            !.late_x = <<0>>],
          y |-> out.y,
          out |-> out,
          latencies |-> latencies,
          lagged |-> lagged ]

\* get_dynamic_rates: the engine after the call, its return value y, and what it read
get_dynamic_rates(self, early_rates, late_rates) ==
    LET written == [self EXCEPT !.early_memory[self.memory_index] = early_rates,
                                !.late_memory[self.memory_index] = late_rates]
        latencies == get_latencies(written, early_rates)
        lagged == get_lagged_rates(written, latencies)
        moved == [written EXCEPT !.memory_index = advance(written)]
        out == step_dynamics(moved, lagged.early_u, lagged.late_u)
    IN  [ self |-> [moved EXCEPT !.early_x = out.early_x, !.late_x = out.late_x],
          y |-> out.y,
          out |-> out,
          latencies |-> latencies,
          lagged |-> lagged ]

(***************************************************************************)
(* Tuning profiles of the neuron.  A profile is kept by its `type`:        *)
(* "none" is CompleteTolerance.                                            *)
(***************************************************************************)

\* CompleteTolerance.firing_rate_modifier: 1 whatever the arguments
CompleteTolerance == ModUnit

\* GaussianPositionProfile.firing_rate_modifier: 1 at the receptive-field
\* centre (0, 0), lower away from it
GaussianPosition(x, y) == IF x = 0 /\ y = 0 THEN ModUnit ELSE ModUnit \div 2

\* LogNormalSizeProfile.firing_rate_modifier: 1 at the preferred size 0
LogNormalSize(size) == IF size = 0 THEN ModUnit ELSE ModUnit \div 2

\* TwoInputSigmoidOcclusionProfile.firing_rate_modifier
TwoInputSigmoid(vis_nd, vis_d) ==
    IF vis_d = 0 THEN 0 ELSE IF vis_nd = 0 THEN ModUnit \div 2 ELSE ModUnit

position_modifier(profile, x, y) ==
    IF profile = "none" THEN CompleteTolerance ELSE GaussianPosition(x, y)

size_modifier(profile, size) ==
    IF profile = "none" THEN CompleteTolerance ELSE LogNormalSize(size)

occlusion_modifier(profile, vis_nd, vis_d) ==
    IF profile = "none" THEN CompleteTolerance ELSE TwoInputSigmoid(vis_nd, vis_d)

\* AveragingClutterProfile.firing_rate_modifier: the weighted mean of the
\* isolated rates, 0 when the weights sum to 0
AveragingClutter(isolated_rates, weights) ==
    LET total == SumSeq(weights)
    IN  IF total = 0 THEN 0
        ELSE SumSeq([i \in 1..Len(weights) |-> isolated_rates[i] * weights[i]]) \div total

\* the position tolerance taken as always present
has_position_tolerance_always(position) == TRUE

\* whether self.position.position_tolerance exists: CompleteTolerance has no
\* such attribute
has_position_tolerance(position) == position # "none"

(***************************************************************************)
(* Neuron.__init__: what each profile argument selects.  A profile         *)
(* argument is None or Some(name).                                         *)
(***************************************************************************)
selectivity_kind(selectivity_profile) ==
    IF selectivity_profile = None THEN "AttributeError"
    ELSE IF Lower(selectivity_profile[1]) = "power_law" THEN "power_law"
    ELSE IF Lower(selectivity_profile[1]) = "kurtosis" THEN "kurtosis"
    ELSE "Invalid selectivity profile"

dynamic_kind(dynamic_profile) ==
    IF dynamic_profile = None THEN "none"
    ELSE IF Lower(dynamic_profile[1]) = "tamura" THEN "tamura"
    ELSE "Invalid dynamic profile"

position_kind(position_profile) ==
    IF position_profile = None THEN "none"
    ELSE IF Lower(position_profile[1]) = "gaussian" THEN "gaussian"
    ELSE "Invalid position profile"

size_kind(size_profile, position) ==
    IF size_profile = None THEN "none"
    ELSE IF Lower(size_profile[1]) = "lognormal"
         THEN IF has_position_tolerance(position) THEN "lognormal"
              ELSE "Position tolerance needed to create log normal size tuning"
    ELSE "Invalid size profile"

occlusion_kind(occlusion_profile) ==
    IF occlusion_profile = None THEN "none"
    ELSE IF Lower(occlusion_profile[1]) = "twoinputsigmoid" THEN "twoinputsigmoid"
    ELSE "Invalid occlusion profile"

clutter_kind(clutter_profile) ==
    IF clutter_profile = None THEN "AttributeError"
    ELSE IF Lower(clutter_profile[1]) = "average" THEN "average"
    ELSE "Invalid Clutter Profile"

Errors ==
    { "AttributeError", "Invalid selectivity profile", "Invalid dynamic profile",
      "Invalid position profile",
      "Position tolerance needed to create log normal size tuning",
      "Invalid size profile", "Invalid occlusion profile", "Invalid Clutter Profile" }

\* Neuron.__init__: the exception it raises ("" when none), the instance and
\* its dynamics engine.  draw holds the random draws of the profiles.
NeuronInit(a, draw) ==
    LET sel == selectivity_kind(a.selectivity_profile)
        dyn == dynamic_kind(a.dynamic_profile)
        pos == position_kind(a.position_profile)
        siz == size_kind(a.size_profile, pos)
        occ == occlusion_kind(a.occlusion_profile)
        clu == clutter_kind(a.clutter_profile)
        kinds == <<sel, dyn, pos, siz, occ, clu>>
        bad == {i \in 1..6 : kinds[i] \in Errors}
        first == CHOOSE i \in bad : \A j \in bad : i <= j
        selectivity == [type |-> sel, objects |-> draw.objects]
    IN  IF bad # {}
        THEN [raised |-> kinds[first], self |-> None, dynamics |-> None]
        ELSE [ raised |-> "",
               self |-> Some([ selectivity |-> selectivity,
                               max_fire_rate |-> IF sel = "kurtosis"
                                                 THEN draw.max_fire_rate
                                                 ELSE a.max_fire_rate,
                               position |-> pos,
                               size |-> siz,
                               occlusion |-> occ,
                               clutter |-> clu ]),
               dynamics |-> IF dyn = "tamura"
                            THEN Some(TamuraDynamics(a.sim_time_step_s,
                                                     selectivity.objects,
                                                     250000, draw))
                            ELSE None ]

(***************************************************************************)
(* Neuron._get_static_firing_rate and Neuron.firing_rate                   *)
(***************************************************************************)
\* object_dict.get(obj, 1): an unknown object taken as fully preferred
get_default_one(object_dict, obj) ==
    IF obj \in DOMAIN object_dict THEN object_dict[obj] ELSE SelUnit

\* object_dict.get(obj, 0)
get(object_dict, obj) ==
    IF obj \in DOMAIN object_dict THEN object_dict[obj] ELSE 0

get_static_firing_rate(self, object_dict, ground_truth_list) ==
    LET n == Len(ground_truth_list)
        \* objects, x_arr, y_arr, size_arr, _, _, _, vis_nd, vis_d = zip(*ground_truth_list)
        obj_pref(t) == get(object_dict, t[1])
        position_weight(t) == position_modifier(self.position, t[2], t[3])
        isolated_rate(t) ==
            self.max_fire_rate
                * obj_pref(t)
                * position_weight(t)
                * size_modifier(self.size, t[4])
                * occlusion_modifier(self.occlusion, t[8], t[9])
        position_weights == [i \in 1..n |-> position_weight(ground_truth_list[i])]
        isolated_rates == [i \in 1..n |-> isolated_rate(ground_truth_list[i])]
    IN  [ joint_rate |-> AveragingClutter(isolated_rates, position_weights),
          isolated_rates |-> isolated_rates ]

\* the static rate with the rate initialised to max_fire_rate instead of 0
scene_rate_from_max(self, object_dict, ground_truth_list) ==
    IF ground_truth_list # <<>>
    THEN get_static_firing_rate(self, object_dict, ground_truth_list).joint_rate
    ELSE self.max_fire_rate * RateUnit

\* the static rate of a scene under a preference table: the rate stays at its
\* initial 0 unless `if ground_truth_list:` holds
scene_rate(self, object_dict, ground_truth_list) ==
    IF ground_truth_list # <<>>
    THEN get_static_firing_rate(self, object_dict, ground_truth_list).joint_rate
    ELSE 0

\* firing_rate: the returned rate, the engine after the call and the engine
\* call made (None or Some(inputs and result))
firing_rate(self, dyn, ground_truth_list) ==
    IF dyn # None /\ dyn[1].type = "tamura"
    THEN LET default_rate == scene_rate(self, self.selectivity.objects, ground_truth_list)
             early_rate == scene_rate(self, dyn[1].early_obj_pref, ground_truth_list)
             r == get_dynamic_rates(dyn[1], early_rate, default_rate)
         IN  [ rate |-> r.y, dynamics |-> Some(r.self),
               stepped |-> Some([early |-> early_rate, late |-> default_rate, r |-> r]) ]
    ELSE [ rate |-> scene_rate(self, self.selectivity.objects, ground_truth_list),
           dynamics |-> dyn,
           stepped |-> None ]

\* isolated_rates of the call's _get_static_firing_rate on the default table
isolated_of(self, ground_truth_list) ==
    IF ground_truth_list # <<>>
    THEN get_static_firing_rate(self, self.selectivity.objects,
                                ground_truth_list).isolated_rates
    ELSE <<>>

(***************************************************************************)
(* Inputs: the arguments, random draws, scenes and rates the model tries.  *)
(***************************************************************************)
Range(s) == {s[i] : i \in DOMAIN s}

ObjectLists == { <<"A">>, <<"A", "B">> }

SelValues == {2, 3}

SelectivityArgs == { None, Some("power_law"), Some("Kurtosis"), Some("bogus") }

DynamicArgs == { None, Some("Tamura"), Some("bogus") }

PositionArgs == { None, Some("Gaussian"), Some("bogus") }

SizeArgs == { None, Some("Lognormal"), Some("bogus") }

OcclusionArgs == { None, Some("TwoInputSigmoid"), Some("bogus") }

ClutterArgs == { None, Some("average"), Some("bogus") }

\* simulation time steps (dt) tried, in microseconds
EngineTimeSteps == {25000}

NeuronArgs ==
    [ object_list : ObjectLists,
      sim_time_step_s : EngineTimeSteps,
      selectivity_profile : SelectivityArgs,
      max_fire_rate : {100},
      position_profile : PositionArgs,
      dynamic_profile : DynamicArgs,
      size_profile : SizeArgs,
      occlusion_profile : OcclusionArgs,
      clutter_profile : ClutterArgs ]

\* the np.random draws of one TamuraDynamics construction
EngineDraws ==
    [ rand : {0, 9000},
      gamma : {60000, 200000},
      tau : {40 * RateUnit},
      early_tau : {17000},
      late_tau : {50000} ]

\* the random draws of one Neuron construction
NeuronDraws(a) ==
    [ objects : [Range(a.object_list) -> SelValues],
      max_fire_rate : {60, 100},
      rand : {0},
      gamma : {200000},
      tau : {40 * RateUnit},
      early_tau : {17000},
      late_tau : {50000} ]

Objects == {"A", "B", "U"}

\* (object, x, y, size, rot_x, rot_y, rot_z, vis_nondiag, vis_diag)
IdealTuples == { <<o, 0, 0, 0, 0, 0, 0, 1, 1>> : o \in Objects }

ObjectTuples ==
    IdealTuples
        \cup { <<o, 1, 0, 1, 0, 0, 0, 1, 1>> : o \in Objects }
        \cup { <<o, 0, 0, 0, 0, 0, 0, 0, 1>> : o \in Objects }

Scenes ==
    { <<>> } \cup { <<t>> : t \in ObjectTuples }
             \cup { <<t, u>> : t \in ObjectTuples, u \in IdealTuples }

\* a standalone engine: TamuraDynamics(dt, obj_dict, max_latency)

EngineObjDicts == { [o \in {"A", "B"} |-> IF o = "A" THEN 2 ELSE 3] }

EngineMaxLatencies == {50000, 240000, 250000}

\* (early_rates, late_rates) passed to get_dynamic_rates
EngineInputs ==
    { <<0, 0>>, <<100 * RateUnit, 50 * RateUnit>> }

Changes(h) == Cardinality({i \in 1..(Len(h) - 1) : h[i] # h[i + 1]})

(***************************************************************************)
(* The state machine.                                                      *)
(***************************************************************************)
ZeroProbe ==
    [ write_index |-> 0, latencies |-> 0, latency_steps |-> 0,
      early_index |-> 0, late_index |-> 0, early_u |-> 0, late_u |-> 0,
      early_y |-> 0, late_y |-> 0, y |-> 0 ]

ProbeOf(self, r) ==
    [ write_index |-> self.memory_index,
      latencies |-> r.latencies,
      latency_steps |-> r.lagged.latency_steps,
      early_index |-> r.lagged.early_indices,
      late_index |-> r.lagged.late_indices,
      early_u |-> r.lagged.early_u,
      late_u |-> r.lagged.late_u,
      early_y |-> r.out.early_y,
      late_y |-> r.out.late_y,
      y |-> r.y ]

ZeroStamp(dyn) ==
    IF dyn = None THEN <<>> ELSE [i \in DOMAIN dyn[1].early_memory |-> 0]

Init ==
    /\ neuron = None
    /\ dynamics = None
    /\ args = None
    /\ raised = ""
    /\ scene = <<>>
    /\ isolated = <<>>
    /\ rate = 0
    /\ calls = 0
    /\ engine_args = None
    /\ hist = <<>>
    /\ stamp = <<>>
    /\ probe = ZeroProbe
    /\ applied = None
    /\ population = <<>>

\* neuron = Neuron(...)
Construct(a, draw) ==
    /\ args = None
    /\ \E made \in {NeuronInit(a, draw)} :
           /\ neuron' = made.self
           /\ dynamics' = made.dynamics
           /\ raised' = made.raised
           /\ stamp' = ZeroStamp(made.dynamics)
           /\ engine_args' = IF made.dynamics = None THEN None
                             ELSE Some([dt |-> a.sim_time_step_s, max_latency |-> 250000])
    /\ args' = Some(a)
    /\ UNCHANGED <<scene, isolated, rate, calls, hist, probe, applied, population>>

\* neuron.firing_rate(ground_truth_list)
FiringRate(ground_truth_list) ==
    /\ neuron # None
    /\ calls < MaxCalls
    /\ \E res \in {firing_rate(neuron[1], dynamics, ground_truth_list)} :
           /\ rate' = res.rate
           /\ dynamics' = res.dynamics
           /\ isolated' = isolated_of(neuron[1], ground_truth_list)
           /\ IF res.stepped = None
              THEN UNCHANGED <<hist, stamp, probe>>
              ELSE /\ hist' = Append(hist, <<res.stepped[1].early, res.stepped[1].late>>)
                   /\ stamp' = [stamp EXCEPT ![dynamics[1].memory_index] = Len(hist) + 1]
                   /\ probe' = ProbeOf(dynamics[1], res.stepped[1].r)
    /\ scene' = ground_truth_list
    /\ calls' = calls + 1
    /\ UNCHANGED <<neuron, args, raised, engine_args, applied, population>>

ConstructNeuron ==
    /\ args = None
    /\ \E a \in NeuronArgs : \E draw \in NeuronDraws(a) : Construct(a, draw)

CallFiringRate ==
    /\ neuron # None
    /\ \E ground_truth_list \in Scenes : FiringRate(ground_truth_list)

Next == ConstructNeuron \/ CallFiringRate

Spec == Init /\ [][Next]_vars

\* d = TamuraDynamics(dt, obj_dict, max_latency): a standalone engine
InitEngine ==
    /\ neuron = None
    /\ args = None
    /\ raised = ""
    /\ scene = <<>>
    /\ isolated = <<>>
    /\ rate = 0
    /\ calls = 0
    /\ hist = <<>>
    /\ probe = ZeroProbe
    /\ applied = None
    /\ population = <<>>
    /\ \E dt \in EngineTimeSteps, obj_dict \in EngineObjDicts,
          max_latency \in EngineMaxLatencies, draw \in EngineDraws :
          /\ dynamics = Some(TamuraDynamics(dt, obj_dict, max_latency, draw))
          /\ engine_args = Some([dt |-> dt, max_latency |-> max_latency])
          /\ stamp = ZeroStamp(dynamics)

\* d.get_dynamic_rates(early_rates, late_rates)
GetDynamicRates(early_rates, late_rates) ==
    /\ dynamics # None
    /\ Len(hist) < MaxSteps
    /\ IF hist = <<>> THEN TRUE
       ELSE \/ hist[Len(hist)] = <<early_rates, late_rates>>
            \/ Changes(hist) < MaxChanges
    /\ \E r \in {get_dynamic_rates(dynamics[1], early_rates, late_rates)} :
           /\ dynamics' = Some(r.self)
           /\ probe' = ProbeOf(dynamics[1], r)
    /\ hist' = Append(hist, <<early_rates, late_rates>>)
    /\ stamp' = [stamp EXCEPT ![dynamics[1].memory_index] = Len(hist) + 1]
    /\ UNCHANGED <<neuronVars, engine_args, applied, population>>

CallGetDynamicRates ==
    \E in \in EngineInputs : GetDynamicRates(in[1], in[2])

NextEngine == CallGetDynamicRates

SpecEngine == InitEngine /\ [][NextEngine]_vars

(***************************************************************************)
(* Direct calls of the module-level function integrate and of the engine's *)
(* static method, with arguments of the caller's choice.                   *)
(***************************************************************************)
engineVars == <<dynamics, engine_args, hist, stamp, probe>>

\* {object: selectivity} tables over at most two objects; the values go one
\* step of 1/SelUnit below 0 and above 1
LateObjDicts ==
    UNION { [keys -> (-1)..(SelUnit + 1)] : keys \in SUBSET {"A", "B"} }

\* phase states in the middle of a run
PhaseStates ==
    [ early_x : { <<0, 0>>, <<100 * RateUnit, 0>>, <<0, 100 * RateUnit>>,
                  <<100 * RateUnit, 100 * RateUnit>> },
      late_x : { <<0>>, <<50 * RateUnit>>, <<-50 * RateUnit>> } ]

\* (early_u, late_u) passed to _step_dynamics
LaggedRates ==
    { <<early_u, late_u>> : early_u \in {0, 100 * RateUnit},
                            late_u \in {-50 * RateUnit, 0, 50 * RateUnit} }

\* an engine d whose phase state is what earlier calls left, and no direct
\* call made yet
InitCalls ==
    /\ neuron = None
    /\ args = None
    /\ raised = ""
    /\ scene = <<>>
    /\ isolated = <<>>
    /\ rate = 0
    /\ calls = 0
    /\ hist = <<>>
    /\ probe = ZeroProbe
    /\ applied = None
    /\ population = <<>>
    /\ \E dt \in {5000, 25000}, obj_dict \in EngineObjDicts,
          draw \in {d \in EngineDraws : d.rand = 0 /\ d.gamma = 200000},
          x \in PhaseStates :
          /\ dynamics = Some([TamuraDynamics(dt, obj_dict, 250000, draw)
                                  EXCEPT !.early_x = x.early_x, !.late_x = x.late_x])
          /\ engine_args = Some([dt |-> dt, max_latency |-> 250000])
          /\ stamp = ZeroStamp(dynamics)

\* TamuraDynamics.get_early_object_selectivities(late_obj_dict)
CallGetEarlyObjectSelectivities ==
    /\ applied = None
    /\ \E late_obj_dict \in LateObjDicts :
        /\ applied' = Some([ fn |-> "get_early_object_selectivities",
                             late_obj_dict |-> late_obj_dict,
                             returned |-> get_early_object_selectivities(late_obj_dict) ])
        /\ UNCHANGED <<neuronVars, engineVars, population>>

\* d._step_dynamics(early_u, late_u) on the engine d
CallStepDynamics ==
    /\ applied = None
    /\ \E u \in LaggedRates :
           \E out \in {step_dynamics(dynamics[1], u[1], u[2])} :
               /\ dynamics' = Some([dynamics[1] EXCEPT !.early_x = out.early_x,
                                                       !.late_x = out.late_x])
               /\ applied' = Some([ fn |-> "_step_dynamics",
                                    early_x |-> dynamics[1].early_x,
                                    late_x |-> dynamics[1].late_x,
                                    early_u |-> u[1],
                                    late_u |-> u[2],
                                    returned |-> out.y ])
    /\ UNCHANGED <<neuronVars, engine_args, hist, stamp, probe, population>>

\* state vectors and inputs passed to integrate
StateVectors(system) ==
    IF system = "early"
    THEN { <<x1, x2>> : x1 \in {-50 * RateUnit, 0, 100 * RateUnit},
                        x2 \in {0, 50 * RateUnit} }
    ELSE { <<x1>> : x1 \in {-50 * RateUnit, 0, 100 * RateUnit} }

IntegrateInputs == {-50 * RateUnit, 0, 100 * RateUnit}

\* integrate(d.dt, a, b, c, x, u) with the matrices of the early or of the
\* late system of d, as _step_dynamics builds them.  x = x + dxdt*dt binds
\* the local name to a new array: the caller's x is the same after the call.
CallIntegrate ==
    /\ applied = None
    /\ \E system \in {"early", "late"} :
         \E x \in StateVectors(system), u \in IntegrateInputs :
           LET self == dynamics[1]
               a == IF system = "early"
                    THEN [num |-> self.early_A, den |-> self.early_tau]
                    ELSE [num |-> self.late_A, den |-> self.late_tau]
               b == IF system = "early"
                    THEN [num |-> self.early_B, den |-> self.early_tau]
                    ELSE [num |-> self.late_B, den |-> self.late_tau]
               c == IF system = "early" THEN self.early_C ELSE self.late_C
           IN  \E res \in {integrate(self.dt, a, b, c, x, u)} :
                   applied' = Some([ fn |-> "integrate",
                                     system |-> system,
                                     x |-> x,
                                     u |-> u,
                                     x_after |-> x,
                                     returned |-> <<res.x, res.y>> ])
    /\ UNCHANGED <<neuronVars, engineVars, population>>

NextCalls ==
    \/ CallGetEarlyObjectSelectivities
    \/ CallStepDynamics
    \/ CallIntegrate

SpecCalls == InitCalls /\ [][NextCalls]_vars

(***************************************************************************)
(* A population: TamuraDynamics instances that live side by side and are   *)
(* stepped in any order, each on its own input sequence.  A member keeps   *)
(* the instance as constructed (made), the instance (dynamics), its input  *)
(* plan, and the inputs and outputs of the calls made on it.               *)
(***************************************************************************)
MaxPopulationSteps == 7

\* the input a member's plan gives to its k-th call: zero rates up to the
\* onset, the plan's rates afterwards
PlanInput(plan, k) == IF k <= plan.onset THEN <<0, 0>> ELSE plan.rates

PopulationPlans ==
    [ onset : {0, 2},
      rates : { <<100 * RateUnit, 50 * RateUnit>>, <<50 * RateUnit, 25 * RateUnit>> } ]

PopulationEngines ==
    { TamuraDynamics(dt, obj_dict, 250000, draw) :
          dt \in EngineTimeSteps, obj_dict \in EngineObjDicts,
          draw \in {d \in EngineDraws : d.gamma = 200000} }

\* population[i].get_dynamic_rates(...) with early_memory and late_memory
\* shared by all instances instead of created per instance
call_on_shared_memory(pop, i, early_rates, late_rates) ==
    LET r == get_dynamic_rates(pop[i].dynamics, early_rates, late_rates)
        at == pop[i].dynamics.memory_index
    IN  [j \in DOMAIN pop |->
            IF j = i
            THEN [pop[j] EXCEPT !.dynamics = r.self,
                                !.inputs = Append(@, <<early_rates, late_rates>>),
                                !.outputs = Append(@, r.y)]
            ELSE [pop[j] EXCEPT !.dynamics.early_memory[at] = early_rates,
                                !.dynamics.late_memory[at] = late_rates]]

\* population[i].get_dynamic_rates(early_rates, late_rates): every attribute
\* the call assigns is an attribute of self, created in that instance's
\* __init__
call_on(pop, i, early_rates, late_rates) ==
    LET r == get_dynamic_rates(pop[i].dynamics, early_rates, late_rates)
    IN  [pop EXCEPT ![i].dynamics = r.self,
                    ![i].inputs = Append(@, <<early_rates, late_rates>>),
                    ![i].outputs = Append(@, r.y)]

InitPopulation ==
    /\ neuron = None
    /\ dynamics = None
    /\ args = None
    /\ raised = ""
    /\ scene = <<>>
    /\ isolated = <<>>
    /\ rate = 0
    /\ calls = 0
    /\ engine_args = None
    /\ hist = <<>>
    /\ stamp = <<>>
    /\ probe = ZeroProbe
    /\ applied = None
    /\ \E d1 \in PopulationEngines, d2 \in PopulationEngines,
          plan1 \in PopulationPlans, plan2 \in PopulationPlans :
          population = << [ made |-> d1, dynamics |-> d1, plan |-> plan1,
                            inputs |-> <<>>, outputs |-> <<>> ],
                          [ made |-> d2, dynamics |-> d2, plan |-> plan2,
                            inputs |-> <<>>, outputs |-> <<>> ] >>

\* one per-step update of member i
StepMember(i) ==
    /\ i \in DOMAIN population
    /\ Len(population[i].inputs) < MaxPopulationSteps
    /\ \E in \in {PlanInput(population[i].plan, Len(population[i].inputs) + 1)} :
           population' = call_on(population, i, in[1], in[2])
    /\ UNCHANGED <<neuronVars, engineVars, applied>>

StepSomeMember == \E i \in 1..2 : StepMember(i)

NextPopulation == StepSomeMember

SpecPopulation == InitPopulation /\ [][NextPopulation]_vars

(***************************************************************************)
(* Sustained drive: an engine at the default time step (0.005 s) and the   *)
(* default latency ceiling, called with the same rates on every call.      *)
(***************************************************************************)
MaxHoldSteps == 130

\* the default sim_time_step_s / time_step, in microseconds
SteadyTimeSteps == {5000}

\* draws of the time constants: an early_tau draw below the floor of 0.005 s,
\* the two means, and a short late_tau
SteadyDraws ==
    [ rand : {0, 9000},
      gamma : {200000},
      tau : {40 * RateUnit},
      early_tau : {2000, 17000},
      late_tau : {30000, 50000} ]

SteadyInputs ==
    { <<0, 0>>, <<100 * RateUnit, 50 * RateUnit>>, <<50 * RateUnit, 100 * RateUnit>> }

InitSteady ==
    /\ neuron = None
    /\ args = None
    /\ raised = ""
    /\ scene = <<>>
    /\ isolated = <<>>
    /\ rate = 0
    /\ calls = 0
    /\ hist = <<>>
    /\ probe = ZeroProbe
    /\ applied = None
    /\ population = <<>>
    /\ \E dt \in SteadyTimeSteps, obj_dict \in EngineObjDicts, draw \in SteadyDraws :
          /\ dynamics = Some(TamuraDynamics(dt, obj_dict, 250000, draw))
          /\ engine_args = Some([dt |-> dt, max_latency |-> 250000])
          /\ stamp = ZeroStamp(dynamics)

\* d.get_dynamic_rates(early_rates, late_rates) with the rates of the first call
HoldRates(early_rates, late_rates) ==
    /\ dynamics # None
    /\ Len(hist) < MaxHoldSteps
    /\ IF hist = <<>> THEN TRUE ELSE hist[1] = <<early_rates, late_rates>>
    /\ \E r \in {get_dynamic_rates(dynamics[1], early_rates, late_rates)} :
           /\ dynamics' = Some(r.self)
           /\ probe' = ProbeOf(dynamics[1], r)
    /\ hist' = Append(hist, <<early_rates, late_rates>>)
    /\ stamp' = [stamp EXCEPT ![dynamics[1].memory_index] = Len(hist) + 1]
    /\ UNCHANGED <<neuronVars, engine_args, applied, population>>

CallHoldRates ==
    \E in \in SteadyInputs : HoldRates(in[1], in[2])

NextSteady == CallHoldRates

SpecSteady == InitSteady /\ [][NextSteady]_vars

(***************************************************************************)
(* Properties.                                                             *)
(***************************************************************************)

\* the engine as it was when the last get_dynamic_rates call read its buffers:
\* the cursor still on the slot just written
AtRead == [dynamics[1] EXCEPT !.memory_index = probe.write_index]

\* the sample of channel ch (1 early, 2 late) written k calls before call n,
\* the initial 0 when fewer calls were made
Written(n, k, ch) == IF k < n THEN hist[n - k][ch] ELSE 0

\* C1: a call of firing_rate on a neuron that has a dynamics engine invokes
\* get_dynamic_rates exactly once and returns the engine's output; a neuron
\* without an engine makes no engine call.
C1_FiringRateInvokesEngine ==
    [][ (calls' = calls + 1)
            => IF dynamics # None
               THEN Len(hist') = Len(hist) + 1 /\ rate' = probe'.y
               ELSE hist' = hist ]_vars

\* C2: on a neuron with a dynamics engine the engine has been stepped once per
\* firing_rate call, and a call with an empty scene writes 0 to the cursor's
\* slot of both buffers and advances the cursor by one.
C2_EngineSteppedEveryCall ==
    (neuron # None /\ dynamics # None)
        => /\ Len(hist) = calls
           /\ (calls > 0 /\ scene = <<>>)
                  => /\ hist[calls] = <<0, 0>>
                     /\ dynamics[1].early_memory[probe.write_index] = 0
                     /\ dynamics[1].late_memory[probe.write_index] = 0
                     /\ dynamics[1].memory_index
                            = (probe.write_index + 1) % memory_length(dynamics[1])

\* C3: a delayed read whose requested delay is at least the buffer length
\* returns the oldest sample of the buffer, the one in the slot the cursor
\* overwrites on the next call.
C3_SaturationReturnsOldest ==
    (dynamics # None /\ hist # <<>>)
        => LET L == memory_length(dynamics[1])
               late_steps == probe.latency_steps + dynamics[1].late_additional_latency
           IN  /\ (late_steps >= L)
                      => /\ probe.late_index = (probe.write_index + 1) % L
                         /\ probe.late_u = Written(Len(hist), L - 1, 2)
               /\ (probe.latency_steps >= L)
                      => /\ probe.early_index = (probe.write_index + 1) % L
                         /\ probe.early_u = Written(Len(hist), L - 1, 1)

\* C4: after n calls a lookup with a delay k below the buffer length, k < n,
\* lands on the slot written k calls before the current one and holds the
\* early and late values written then (k = 0: the current call's values); the
\* reads the call itself made return the sample written that many calls ago.
C4_HistoryRoundTrip ==
    (dynamics # None /\ hist # <<>>)
        => LET L == memory_length(dynamics[1])
               n == Len(hist)
               late_steps == probe.latency_steps + dynamics[1].late_additional_latency
           IN  /\ \A k \in 0..(L - 1) :
                      (k < n) =>
                          /\ stamp[get_index(AtRead, k)] = n - k
                          /\ dynamics[1].early_memory[get_index(AtRead, k)] = hist[n - k][1]
                          /\ dynamics[1].late_memory[get_index(AtRead, k)] = hist[n - k][2]
               /\ (probe.latency_steps < L)
                      => probe.early_u = Written(n, probe.latency_steps, 1)
               /\ (late_steps < L) => probe.late_u = Written(n, late_steps, 2)

\* C4 witness: more calls than slots were made and the early read wrapped
\* around the end of the buffer to a sample that differs from the current one.
C4_Witness ==
    /\ dynamics # None
    /\ Len(hist) > memory_length(dynamics[1])
    /\ probe.latency_steps > probe.write_index
    /\ probe.latency_steps >= 1
    /\ probe.early_u = hist[Len(hist) - probe.latency_steps][1]
    /\ probe.early_u # hist[Len(hist)][1]

\* C5: the cursor is in [0, buffer_length), equals the number of calls modulo
\* the buffer length, and every index _get_index computes, for any delay from
\* 0 to beyond twice the buffer length, is in [0, buffer_length).
C5_CursorAndIndexInBounds ==
    (dynamics # None)
        => LET L == memory_length(dynamics[1])
           IN  /\ dynamics[1].memory_index \in 0..(L - 1)
               /\ dynamics[1].memory_index = Len(hist) % L
               /\ probe.early_index \in 0..(L - 1)
               /\ probe.late_index \in 0..(L - 1)
               /\ \A k \in 0..(2 * L + 2) :
                      /\ get_index(dynamics[1], k) \in 0..(L - 1)
                      /\ get_index(AtRead, k) \in 0..(L - 1)

\* C5 witness: after exactly buffer_length calls the cursor is back at 0, and
\* the last call's late read asked for a delay of at least the buffer length.
C5_Witness ==
    /\ dynamics # None
    /\ Len(hist) = memory_length(dynamics[1])
    /\ dynamics[1].memory_index = 0
    /\ probe.latency_steps + dynamics[1].late_additional_latency
           >= memory_length(dynamics[1])

\* C6: on a neuron without a dynamics engine a firing_rate call with an empty
\* scene returns 0 and changes neither the neuron nor any engine state,
\* whatever calls came before.
C6_EmptySceneIsZero ==
    [][ (calls' = calls + 1 /\ dynamics = None /\ scene' = <<>>)
            => /\ rate' = 0
               /\ isolated' = <<>>
               /\ neuron' = neuron
               /\ dynamics' = dynamics
               /\ <<hist', stamp', probe'>> = <<hist, stamp, probe>> ]_vars

\* C6 witness: a second (or later) call with an empty scene returned 0.
C6_Witness ==
    /\ neuron # None
    /\ dynamics = None
    /\ calls >= 2
    /\ scene = <<>>
    /\ rate = 0

\* C7: every isolated rate is max_fire_rate x selectivity x position modifier
\* x size modifier x occlusion modifier, the selectivity of an object absent
\* from the table being 0; a scene of unknown objects only gives rate 0; and
\* the neuron with no dynamics, table {A: 0.5}, max_fire_rate 100 and complete
\* tolerances returns 50 for the scene [A].
C7_IsolatedRateProduct ==
    (neuron # None /\ calls > 0 /\ scene # <<>>)
        => LET self == neuron[1]
               table == self.selectivity.objects
               sel(t) == IF t[1] \in DOMAIN table THEN table[t[1]] ELSE 0
           IN  /\ Len(isolated) = Len(scene)
               /\ \A i \in 1..Len(scene) :
                      isolated[i]
                          = self.max_fire_rate * sel(scene[i])
                              * position_modifier(self.position, scene[i][2], scene[i][3])
                              * size_modifier(self.size, scene[i][4])
                              * occlusion_modifier(self.occlusion, scene[i][8], scene[i][9])
               /\ (\A i \in 1..Len(scene) : scene[i][1] \notin DOMAIN table)
                      => (\A i \in 1..Len(scene) : isolated[i] = 0) /\ rate = 0
               /\ ( /\ dynamics = None
                    /\ table = [o \in {"A"} |-> SelUnit \div 2]
                    /\ self.max_fire_rate = 100
                    /\ self.position = "none" /\ self.size = "none"
                    /\ self.occlusion = "none"
                    /\ scene = << <<"A", 0, 0, 0, 0, 0, 0, 1, 1>> >> )
                      => rate = 50 * RateUnit

\* C7 witness: the end-to-end scenario, which returned 50.
C7_Witness ==
    /\ neuron # None
    /\ dynamics = None
    /\ neuron[1].selectivity.objects = [o \in {"A"} |-> SelUnit \div 2]
    /\ neuron[1].max_fire_rate = 100
    /\ neuron[1].position = "none" /\ neuron[1].size = "none"
    /\ neuron[1].occlusion = "none"
    /\ calls > 0
    /\ scene = << <<"A", 0, 0, 0, 0, 0, 0, 1, 1>> >>
    /\ isolated = <<50 * RateUnit>>
    /\ rate = 50 * RateUnit

\* a profile argument names one of the allowed profiles, whatever its case
NameAllowed(profile, allowed) == profile # None /\ Lower(profile[1]) \in allowed

\* the arguments ask for something Neuron(...) must refuse
Misconfigured(a) ==
    \/ ~ NameAllowed(a.selectivity_profile, {"power_law", "kurtosis"})
    \/ ~ (a.dynamic_profile = None \/ NameAllowed(a.dynamic_profile, {"tamura"}))
    \/ ~ (a.position_profile = None \/ NameAllowed(a.position_profile, {"gaussian"}))
    \/ ~ (a.size_profile = None \/ NameAllowed(a.size_profile, {"lognormal"}))
    \/ ~ (a.occlusion_profile = None
              \/ NameAllowed(a.occlusion_profile, {"twoinputsigmoid"}))
    \/ ~ NameAllowed(a.clutter_profile, {"average"})
    \/ (NameAllowed(a.size_profile, {"lognormal"}) /\ a.position_profile = None)

\* C8: whenever a profile name is not an allowed one, or size_profile is
\* lognormal without a position profile, Neuron(...) raises a configuration
\* error and leaves no neuron (and no engine); the error belongs to the
\* construction: a neuron exists exactly when nothing was raised, and no
\* firing_rate call was made once something was raised.
C8_ConfigurationErrorAtConstruction ==
    (args # None)
        => /\ Misconfigured(args[1])
                  => (raised \in Errors /\ neuron = None /\ dynamics = None)
           /\ (raised # "") <=> (neuron = None)
           /\ (raised # "") => (calls = 0)

\* C8 witness: lognormal size tuning without a position profile, every name
\* allowed, was refused.
C8_Witness ==
    /\ args # None
    /\ args[1].size_profile = Some("Lognormal")
    /\ args[1].position_profile = None
    /\ args[1].selectivity_profile = Some("power_law")
    /\ args[1].dynamic_profile = Some("Tamura")
    /\ args[1].occlusion_profile = None
    /\ args[1].clutter_profile = Some("average")
    /\ raised = "Position tolerance needed to create log normal size tuning"
    /\ neuron = None

\* static rates the latency is sampled at: 0, 10, ..., 200 spikes/s
RateSamples == {10 * i * RateUnit : i \in 0..20}

\* C9: for every static rate >= 0 the latency is within
\* [min_latency, max_latency] and a larger rate never has a larger latency.
C9_LatencyBoundedAndMonotone ==
    (dynamics # None)
        => /\ \A r \in RateSamples :
                  /\ dynamics[1].min_latencies <= get_latencies(dynamics[1], r)
                  /\ get_latencies(dynamics[1], r) <= dynamics[1].max_latencies
           /\ \A r1, r2 \in RateSamples :
                  (r1 <= r2) => get_latencies(dynamics[1], r2)
                                    <= get_latencies(dynamics[1], r1)

\* C10: whatever ceiling the constructor is given, min_latency <= max_latency
\* <= ceiling and tau_latency > 0.
C10_LatencyParametersOrdered ==
    (dynamics # None)
        => /\ dynamics[1].min_latencies <= dynamics[1].max_latencies
           /\ dynamics[1].max_latencies <= engine_args[1].max_latency
           /\ dynamics[1].tau_latencies > 0

\* C11: the early preference table has exactly the keys of the late (default)
\* table, every early value is min(2 v, 1) and so at most 1, and for v in
\* [0, 1] the early value is at least v.
C11_EarlyTableDoubledAndClamped ==
    (applied # None /\ applied[1].fn = "get_early_object_selectivities")
        => LET late == applied[1].late_obj_dict
               early == applied[1].returned
           IN  /\ DOMAIN early = DOMAIN late
               /\ \A key \in DOMAIN late :
                      /\ early[key] = Min(2 * late[key], SelUnit)
                      /\ early[key] <= SelUnit
                      /\ (0 <= late[key] /\ late[key] <= SelUnit)
                             => early[key] >= late[key]

\* C11 witness: a table with one value below 0.5, which is doubled, and one
\* above 0.5, which is clamped to 1.
C11_Witness ==
    /\ applied # None
    /\ applied[1].fn = "get_early_object_selectivities"
    /\ applied[1].late_obj_dict = [o \in {"A", "B"} |-> IF o = "A" THEN 1 ELSE 3]
    /\ applied[1].returned = [o \in {"A", "B"} |-> IF o = "A" THEN 2 ELSE SelUnit]

\* an instance run alone: the instance and its outputs after the calls ins
RECURSIVE Replay(_, _, _)
Replay(self, ins, outs) ==
    IF ins = <<>> THEN [self |-> self, outputs |-> outs]
    ELSE LET r == get_dynamic_rates(self, Head(ins)[1], Head(ins)[2])
         IN  Replay(r.self, Tail(ins), Append(outs, r.y))

\* C12: a get_dynamic_rates call on one instance leaves every other instance
\* (buffers, cursor, phase state) unchanged, and under every interleaving of
\* the members' updates each member's instance and output sequence are those
\* of the member run alone on its own inputs.
C12_DynamicsStateIsLocal ==
    /\ [](\A i \in DOMAIN population :
              \E alone \in {Replay(population[i].made, population[i].inputs, <<>>)} :
                  /\ population[i].dynamics = alone.self
                  /\ population[i].outputs = alone.outputs)
    /\ [][ \A i \in DOMAIN population :
               (population'[i].inputs # population[i].inputs)
                   => \A j \in DOMAIN population \ {i} :
                          population'[j] = population[j] ]_vars

\* C12 witness: both members were stepped past their onset delay, differ in
\* the number of calls made, and both return a positive rate.
C12_Witness ==
    /\ Len(population) = 2
    /\ Len(population[1].outputs) >= 6
    /\ Len(population[2].outputs) > Len(population[1].outputs)
    /\ population[1].outputs[Len(population[1].outputs)] > 0
    /\ population[2].outputs[Len(population[2].outputs)] > 0
    /\ population[1].dynamics.early_memory # population[2].dynamics.early_memory

Abs(a) == IF a < 0 THEN -a ELSE a

\* how close to its steady value a settled output is: 1 spike/s
SettleTolerance == RateUnit

RECURSIVE LeadingZeros(_)
LeadingZeros(h) ==
    IF h = <<>> \/ Head(h) # <<0, 0>> THEN 0 ELSE 1 + LeadingZeros(Tail(h))

\* h is a step: rates 0 on the first calls, then one pair of rates with a
\* positive early rate on every call since
IsStep(h) ==
    /\ LeadingZeros(h) < Len(h)
    /\ h[LeadingZeros(h) + 1][1] > 0
    /\ \A i \in (LeadingZeros(h) + 1)..Len(h) : h[i] = h[LeadingZeros(h) + 1]

\* C14: on a fresh engine driven with rates 0 on calls 0..n-1 and a constant
\* early rate r > 0 from call n on, with k = round(latency(r)/dt) >= 1, the
\* output is 0 and the phase state all-zero on every call before call n + k,
\* the output is positive on call n + k, and the late system gets a non-zero
\* input first on call n + k + late_additional_latency.
C14_StepOnsetDelay ==
    (dynamics # None /\ hist # <<>> /\ IsStep(hist))
        => LET self == dynamics[1]
               n == LeadingZeros(hist)
               j == Len(hist) - 1
               k == Rint(get_latencies(self, hist[n + 1][1]), self.dt)
           IN  /\ k >= 1
               /\ (j < n + k)
                      => /\ probe.y = 0
                         /\ self.early_x = <<0, 0>>
                         /\ self.late_x = <<0>>
               /\ (j = n + k) => probe.y > 0
               /\ (j < n + k + self.late_additional_latency) => probe.late_u = 0
               /\ (j = n + k + self.late_additional_latency) => probe.late_u # 0

\* C15: a get_dynamic_rates call writes the current rates at the cursor's
\* slot, computes the latency from the current early rate alone, reads the
\* early input at delay round(latency/dt) and the late input at that delay
\* plus late_additional_latency (10), both counted from the cursor not yet
\* advanced and on the buffers already written, advances the cursor, and
\* then integrates both systems once on the values read; the late rate has
\* no influence on either delay.
C15_CallOrder ==
    [][ (Len(hist') = Len(hist) + 1)
            => LET self == dynamics[1]
                   early_rates == hist'[Len(hist')][1]
                   late_rates == hist'[Len(hist')][2]
                   written == [self EXCEPT
                                  !.early_memory[self.memory_index] = early_rates,
                                  !.late_memory[self.memory_index] = late_rates]
                   latencies == get_latencies(self, early_rates)
                   steps == Rint(latencies, self.dt)
                   out == step_dynamics(self, probe'.early_u, probe'.late_u)
               IN  /\ self.late_additional_latency = 10
                   /\ probe'.write_index = self.memory_index
                   /\ dynamics'[1].early_memory = written.early_memory
                   /\ dynamics'[1].late_memory = written.late_memory
                   /\ probe'.latencies = latencies
                   /\ probe'.latency_steps = steps
                   /\ probe'.early_index = get_index(written, steps)
                   /\ probe'.late_index
                          = get_index(written, steps + self.late_additional_latency)
                   /\ probe'.early_u = written.early_memory[probe'.early_index]
                   /\ probe'.late_u = written.late_memory[probe'.late_index]
                   /\ dynamics'[1].memory_index = advance(self)
                   /\ dynamics'[1].early_x = out.early_x
                   /\ dynamics'[1].late_x = out.late_x
                   /\ probe'.y = out.y
                   /\ \A other \in EngineInputs :
                          \E r \in {get_dynamic_rates(self, early_rates, other[2])} :
                              /\ r.latencies = latencies
                              /\ r.lagged.early_indices = probe'.early_index
                              /\ r.lagged.late_indices = probe'.late_index ]_vars

\* C15 witness: after a change of the rates a call read an early input that
\* is not the one it wrote, from a slot other than the cursor's, its late
\* read was not clamped, and the cursor has moved on by one.
C15_Witness ==
    /\ dynamics # None
    /\ Len(hist) >= 2
    /\ probe.early_index # probe.write_index
    /\ probe.early_u # hist[Len(hist)][1]
    /\ probe.late_u # hist[Len(hist)][2]
    /\ probe.latency_steps + dynamics[1].late_additional_latency
           < memory_length(dynamics[1])
    /\ dynamics[1].memory_index = (probe.write_index + 1) % memory_length(dynamics[1])
    /\ probe.y > 0

\* the outputs of the early and of the late system for one step of self
\* from the phase state early_x, late_x
EarlyOutput(self, early_x, early_u) ==
    integrate(self.dt, [num |-> self.early_A, den |-> self.early_tau],
              [num |-> self.early_B, den |-> self.early_tau],
              self.early_C, early_x, early_u).y

LateOutput(self, late_x, late_u) ==
    integrate(self.dt, [num |-> self.late_A, den |-> self.late_tau],
              [num |-> self.late_B, den |-> self.late_tau],
              self.late_C, late_x, late_u).y

\* C16: the value a step returns is max(0, early output) + late output: a
\* negative early output contributes 0, and the late output is added as it
\* is, a negative one lowering the result.
C16_OutputClipsEarlyOnly ==
    (applied # None /\ applied[1].fn = "_step_dynamics")
        => LET early_y == EarlyOutput(dynamics[1], applied[1].early_x, applied[1].early_u)
               late_y == LateOutput(dynamics[1], applied[1].late_x, applied[1].late_u)
           IN  /\ applied[1].returned = Max(0, early_y) + late_y
               /\ (early_y < 0) => (applied[1].returned = late_y)
               /\ (late_y < 0) => (applied[1].returned < Max(0, early_y))

\* C16 witness: a step with a negative early output and a negative late
\* output returned the negative late output.
C16_Witness ==
    /\ applied # None
    /\ applied[1].fn = "_step_dynamics"
    /\ EarlyOutput(dynamics[1], applied[1].early_x, applied[1].early_u) < 0
    /\ LateOutput(dynamics[1], applied[1].late_x, applied[1].late_u) < 0
    /\ applied[1].returned
           = LateOutput(dynamics[1], applied[1].late_x, applied[1].late_u)

\* C17: integrate returns (x', y) with x' = x + dt (A x + B u), every
\* component of the derivative taken from the state before the update (the
\* second early component from the old first one), and y = C x' from the
\* updated state; the call changes neither the caller's x nor the engine,
\* and keeps nothing from one call to the next.
C17_IntegrateIsOneEulerStep ==
    [][ (applied' # None /\ applied'[1].fn = "integrate")
            => LET self == dynamics[1]
                   dt == self.dt
                   x == applied'[1].x
                   u == applied'[1].u
                   early_1 == x[1] + ((u - x[1]) * dt) \div self.early_tau
                   early_2 == x[2] + ((x[1] - x[2]) * dt) \div self.early_tau
                   late_1 == x[1] + ((u - x[1]) * dt) \div self.late_tau
               IN  /\ (applied'[1].system = "early")
                          => applied'[1].returned
                                 = << <<early_1, early_2>>,
                                      (150 * early_1 - 150 * early_2) \div 39 >>
                   /\ (applied'[1].system = "late")
                          => applied'[1].returned = << <<late_1>>, late_1 >>
                   /\ applied'[1].x_after = x
                   /\ dynamics' = dynamics ]_vars

\* C17 witness: an early step from x = (100, 0) with input 0 at dt = 0.025,
\* tau = 0.017: the first component falls to 100 - 147 = -47 and the second
\* rises by 147, computed from the old first component.
C17_Witness ==
    /\ applied # None
    /\ applied[1].fn = "integrate"
    /\ applied[1].system = "early"
    /\ dynamics[1].dt = 25000
    /\ applied[1].x = <<100 * RateUnit, 0>>
    /\ applied[1].u = 0
    /\ applied[1].returned[1][1] < 0
    /\ applied[1].returned[1][2] = (100 * RateUnit * 25000) \div 17000
    /\ applied[1].returned[2] < 0

\* the smallest integer not below a / b
Ceiling(a, b) == IF a % b = 0 THEN a \div b ELSE (a \div b) + 1

\* C18: both history buffers have the same length, ceil(max_latency/dt) + 1
\* + late_additional_latency with late_additional_latency = 10, for every
\* ratio of the ceiling max_latency to dt, integer or not.
C18_BufferLength ==
    (dynamics # None)
        => /\ dynamics[1].late_additional_latency = 10
           /\ DOMAIN dynamics[1].early_memory = DOMAIN dynamics[1].late_memory
           /\ memory_length(dynamics[1])
                  = Ceiling(engine_args[1].max_latency, engine_args[1].dt)
                        + 1 + dynamics[1].late_additional_latency

\* the attributes of an engine that no call assigns
Parameters(self) ==
    << self.dt, self.type, self.early_obj_pref, self.min_latencies, self.max_latencies,
       self.tau_latencies, self.late_additional_latency, self.early_tau, self.late_tau,
       self.early_A, self.early_B, self.late_A, self.late_B, self.early_C, self.late_C,
       DOMAIN self.early_memory, DOMAIN self.late_memory >>

\* C19: right after construction both buffers and the phase state are all
\* zero and the cursor is 0; a get_dynamic_rates call writes the cursor's
\* slot of each buffer and no other slot, moves the cursor by one, updates
\* the phase state by one step, and leaves the latency parameters, time
\* constants, matrices and buffer length as they are; nothing else changes
\* the engine.
C19_ZeroInitAndFrame ==
    /\ []((dynamics # None /\ hist = <<>>)
              => /\ \A i \in DOMAIN dynamics[1].early_memory :
                        dynamics[1].early_memory[i] = 0 /\ dynamics[1].late_memory[i] = 0
                 /\ dynamics[1].memory_index = 0
                 /\ dynamics[1].early_x = <<0, 0>>
                 /\ dynamics[1].late_x = <<0>>)
    /\ [][ IF Len(hist') = Len(hist) + 1
           THEN LET self == dynamics[1]
                    after == dynamics'[1]
                    out == step_dynamics(self, probe'.early_u, probe'.late_u)
                IN  /\ \A i \in DOMAIN self.early_memory :
                           IF i = self.memory_index
                           THEN /\ after.early_memory[i] = hist'[Len(hist')][1]
                                /\ after.late_memory[i] = hist'[Len(hist')][2]
                                /\ stamp'[i] = Len(hist')
                           ELSE /\ after.early_memory[i] = self.early_memory[i]
                                /\ after.late_memory[i] = self.late_memory[i]
                                /\ stamp'[i] = stamp[i]
                    /\ after.memory_index = advance(self)
                    /\ after.early_x = out.early_x
                    /\ after.late_x = out.late_x
                    /\ Parameters(after) = Parameters(self)
           ELSE dynamics' = dynamics ]_vars

\* C19 witness: the cursor has wrapped, and the buffers still hold non-zero
\* samples of earlier calls in slots other than the one just written, next
\* to a non-zero phase state.
C19_Witness ==
    /\ dynamics # None
    /\ Len(hist) > memory_length(dynamics[1])
    /\ \E i \in DOMAIN dynamics[1].early_memory :
           /\ i # probe.write_index
           /\ dynamics[1].early_memory[i] > 0
           /\ dynamics[1].late_memory[i] > 0
    /\ dynamics[1].early_x # <<0, 0>>
    /\ dynamics[1].late_x # <<0>>

\* C20: on an engine with max_latencies <= the ceiling given to the
\* constructor, the delays a get_dynamic_rates call asks for (early
\* round(latency/dt), late that plus late_additional_latency) are at most
\* buffer_length - 1, so the clamp of _get_index is never reached and each
\* read returns the sample written that many calls earlier (0 before the
\* first calls); at a latency equal to the ceiling the late read lands on
\* the oldest slot, cursor + 1 modulo the buffer length.
C20_ClampNeverReached ==
    (dynamics # None /\ hist # <<>>
       /\ dynamics[1].max_latencies <= engine_args[1].max_latency)
        => LET L == memory_length(dynamics[1])
               n == Len(hist)
               late_steps == probe.latency_steps + dynamics[1].late_additional_latency
           IN  /\ probe.latency_steps <= L - 1
               /\ late_steps <= L - 1
               /\ probe.early_u = Written(n, probe.latency_steps, 1)
               /\ probe.late_u = Written(n, late_steps, 2)
               /\ (probe.latencies = engine_args[1].max_latency)
                      => probe.late_index = (probe.write_index + 1) % L

\* the number of leading calls of h made with the rates v
RECURSIVE RunLength(_, _)
RunLength(h, v) ==
    IF h = <<>> \/ Head(h) # v THEN 0 ELSE 1 + RunLength(Tail(h), v)

\* the call on which the pulse of h ends (the first call after the calls made
\* with the rates of call LeadingZeros(h))
PulseEnd(h) ==
    LeadingZeros(h)
        + RunLength(SubSeq(h, LeadingZeros(h) + 1, Len(h)), h[LeadingZeros(h) + 1])

\* h is a rectangular pulse, possibly still on: rates 0, then one pair of
\* rates with a positive early rate, then rates 0
IsPulse(h) ==
    /\ LeadingZeros(h) < Len(h)
    /\ h[LeadingZeros(h) + 1][1] > 0
    /\ \A i \in (PulseEnd(h) + 1)..Len(h) : h[i] = <<0, 0>>

\* C21: an early-rate pulse (0, then r > 0 on calls n..m-1, then 0) with
\* kr = round(latency(r)/dt) and k0 = round(latency(0)/dt) has k0 >= kr; the
\* early system is fed r on the calls from n + kr on while the pulse lasts
\* and, for m - n >= k0, up to call m - 1 + k0 and 0 from call m + k0 on, so
\* the delivered pulse is k0 - kr calls longer than the input pulse; a call
\* within the pulse is fed the sample written kr calls earlier and a call
\* after it the sample written k0 calls earlier, which delivers the samples
\* of calls m - k0 .. m - 1 - kr twice.
C21_PulseStretching ==
    (dynamics # None /\ hist # <<>> /\ IsPulse(hist))
        => LET self == dynamics[1]
               n == LeadingZeros(hist)
               m == PulseEnd(hist)
               r == hist[n + 1][1]
               j == Len(hist) - 1
               kr == Rint(get_latencies(self, r), self.dt)
               k0 == Rint(get_latencies(self, 0), self.dt)
           IN  /\ k0 >= kr
               /\ (n <= j /\ j < m)
                      => /\ probe.latency_steps = kr
                         /\ probe.early_u = IF j >= n + kr THEN r ELSE 0
                         /\ (j >= kr) => stamp[probe.early_index] = j - kr + 1
               /\ (j >= m /\ m - n >= k0)
                      => /\ probe.latency_steps = k0
                         /\ probe.early_u = IF j <= m - 1 + k0 THEN r ELSE 0
                         /\ (j >= k0) => stamp[probe.early_index] = j - k0 + 1
                         /\ (m - 1 + k0) - (n + kr) + 1 = (m - n) + (k0 - kr)

====
